---- MODULE Spec2Model ----
(***************************************************************************)
(* laser_wanderer.py as a state machine: main() generates the rollout      *)
(* table (generate_mpc_rollouts, generate_rollout, kinematic_model_step),  *)
(* constructs the LaserWanderer and spins; every laser scan then runs      *)
(* LaserWanderer.wander_cb, which calls compute_cost.                      *)
(*                                                                         *)
(* Numbers are fixed point: angles in milliradians, lengths in             *)
(* centimetres, speeds in cm/s, durations in milliseconds, sines and       *)
(* cosines times 1000.  A cost is kept as the numerator of a fraction      *)
(* over CostDen * Milli, so that the division of line 120 is exact.        *)
(* Every finite number of the model is below 2^31 thousandths, where the    *)
(* doubles of the program are far finer than the model's unit; an overflow  *)
(* of a double (a division by a zero car_length) is kept as an infinity.    *)
(***************************************************************************)
EXTENDS Integers, Sequences, FiniteSets, TLC

VARIABLES
  params,        \* main: the parameters read at lines 251-261
  pc,            \* where the program is
  deltas,        \* generate_mpc_rollouts: deltas (later self.deltas)
  rollouts,      \* generate_mpc_rollouts: rollouts (later self.rollouts)
  i,             \* generate_mpc_rollouts: index of the rollout being generated
  trajectory,    \* generate_rollout: the rows of trajectory_array filled so far
  current_pose,  \* generate_rollout: current_pose
  step,          \* kinematic_model_step: dx, dy, dtheta
  iter,          \* kinematic_model_step: iterations of the wrap loops, modulo 2
  subscribed,    \* LaserWanderer.__init__ has run: wander_cb is subscribed
  msg,           \* wander_cb: the LaserScan being processed
  start,         \* wander_cb: start
  now,           \* the value rospy.Time.now().to_sec() gives the loop test
  delta_costs,   \* wander_cb: delta_costs
  sweeps,        \* wander_cb: passes of the while loop completed
  chosen_delta,  \* wander_cb: chosen_delta (0-based, as np.argmin gives it)
  cmd_pub,       \* messages wander_cb has published in this invocation
  error          \* the exception that ended main or the last callback

vars == <<params, pc, deltas, rollouts, i, trajectory, current_pose, step, iter,
          subscribed, msg, start, now, delta_costs, sweeps, chosen_delta,
          cmd_pub, error>>

startup_vars == <<deltas, rollouts, i, trajectory, current_pose, step, iter,
                  subscribed>>
cycle_vars == <<msg, start, now, delta_costs, sweeps, chosen_delta, cmd_pub>>

----------------------------------------------------------------------------
(* Bounds of the model. *)
MaxT == 2          \* horizons T are 1..MaxT
MaxSweeps == 2     \* passes of the while loop of wander_cb per scan
MaxClock == 2      \* clock readings are 0..MaxClock

(* Program constants and units. *)
MAX_PENALTY == 10000
Milli == 1000
Centi == 100
CostDen == 3
SmallDelta == 10
TwoPi == 6283
Pi == 3142
HalfPi == 1571

----------------------------------------------------------------------------
(* Arithmetic on the fixed-point numbers.  The helpers are functions, so    *)
(* that an argument is evaluated once, before the application.              *)
Abs(a) == IF a < 0 THEN -a ELSE a
Sgn(a) == IF a < 0 THEN -1 ELSE IF a > 0 THEN 1 ELSE 0
Max(a, b) == IF a < b THEN b ELSE a
CeilDiv(a, b) == -((-a) \div b)

\* a * b / c, truncated toward zero, without forming a * b
MulDiv[a \in Int, b \in Int, c \in Int] ==
  LET aa == Abs(a)
      bb == Abs(b)
      cc == Abs(c)
  IN  Sgn(a) * Sgn(b) * Sgn(c)
        * ((aa \div cc) * bb + ((aa % cc) * bb) \div cc)

\* a / b to the nearest integer, halves away from zero (Python 2's round)
Round[a \in Int, b \in Int] ==
  LET aa == Abs(a)
      bb == Abs(b)
  IN  Sgn(a) * Sgn(b) * ((2 * aa + bb) \div (2 * bb))

----------------------------------------------------------------------------
(* np.sin, np.cos, np.tan/np.arctan and math.atan2 in fixed point. *)

\* sin x for 0 <= x <= Pi: 16 x (Pi - x) / (5 Pi^2 - 4 x (Pi - x))
SinHalfTurn[x \in Nat] ==
  LET p == (x * (Pi - x)) \div 100
  IN  Round[16 * p * Milli, 5 * ((Pi * Pi) \div 100) - 4 * p]

SinPos[a \in Nat] ==
  LET r == a % TwoPi
  IN  IF r <= Pi THEN SinHalfTurn[r] ELSE -SinHalfTurn[r - Pi]

Sin[a \in Int] == IF a < 0 THEN -SinPos[-a] ELSE SinPos[a]
Cos[a \in Int] == SinPos[Abs(a) + HalfPi]

\* sin(2 * arctan(0.5 * tan(delta))) = 4 sin cos / (4 cos^2 + sin^2)
Sin2Beta[delta \in Int] ==
  LET s == Sin[delta]
      c == Cos[delta]
  IN  Round[s * c * Milli, Round[4 * c * c + s * s, 4]]

\* arctan z for 0 <= z <= 1 (z times 1000): z (Pi/4 + 0.273 (1 - z))
AtanUnit[z \in Nat] ==
  Round[z * (785 + Round[273 * (Milli - z), Milli]), Milli]

Atan2[y \in Int, x \in Int] ==
  IF x = 0 /\ y = 0 THEN 0
  ELSE LET ax == Abs(x)
           ay == Abs(y)
           a1 == IF ay <= ax THEN AtanUnit[MulDiv[ay, Milli, ax]]
                 ELSE HalfPi - AtanUnit[MulDiv[ax, Milli, ay]]
           a2 == IF x >= 0 THEN a1 ELSE Pi - a1
       IN  IF y >= 0 THEN a2 ELSE -a2

----------------------------------------------------------------------------
(* main: the parameters (rospy.get_param). *)
\* np.arange takes its length from (stop - first) / incr in doubles.  The
\* quotient of the model is the program's when the division leaves a
\* remainder (the double quotient is then far from an integer), when the
\* ends are equal, and when one end is 0 and the other is the step itself
\* (the double quotient is then exactly 1); a configuration such as
\* (-0.2, 0.4, 0.2), whose double quotient is 3.0000000000000004, is not one
\* of the model's.
QuotientExact(first, stop, incr) ==
  \/ incr = 0
  \/ (stop - first) % Abs(incr) # 0
  \/ stop = first
  \/ (first = 0 \/ stop = 0) /\ Abs(stop - first) = Abs(incr)

Params ==
  {p \in [speed        : {100},
          min_delta    : {-200, 0},
          max_delta    : {0, 300},
          delta_incr   : {0, 200},
          dt           : {1000},
          T            : 1..MaxT,
          compute_time : {0, 1},
          laser_offset : {100},
          car_length   : {33, -33, 0}] :
     QuotientExact(p.min_delta, p.max_delta, p.delta_incr)}

Origin == <<0, 0, 0>>

\* np.arange(start, stop, incr); incr = 0 raises (see GenerateMpcRollouts)
Arange(first, stop, incr) ==
  LET n == IF incr > 0 THEN Max(0, CeilDiv(stop - first, incr))
           ELSE Max(0, CeilDiv(first - stop, -incr))
  IN  [k \in 1..n |-> first + (k - 1) * incr]

\* kinematic_model_step, lines 166-178: dx, dy, dtheta before the wrap loops,
\* for a speed and a dt other than 0.  inf = 0: the three are finite.
\* inf = 1 or -1: car_length is 0, v / car_length is an infinity of the sign
\* of v (np.float64 division), dtheta is that infinity times sin2beta and dt,
\* and dx, dy are NaN (the sine of an infinity); the number fields are then 0.
KinematicDeltas(pose, control, car_length) ==
  LET theta == pose[3]
      v == control[1]
      delta == control[2]
      dt == control[3]
  IN  IF Abs(delta) < SmallDelta
      THEN [dx |-> MulDiv[MulDiv[v, Cos[theta], Milli], dt, Milli],
            dy |-> MulDiv[MulDiv[v, Sin[theta], Milli], dt, Milli],
            dtheta |-> 0,
            inf |-> 0]
      ELSE LET sin2beta == Sin2Beta[delta]
           IN  IF car_length = 0
               THEN [dx |-> 0, dy |-> 0, dtheta |-> 0,
                     inf |-> Sgn(v) * Sgn(sin2beta) * Sgn(dt)]
               ELSE LET dtheta ==
                          MulDiv[MulDiv[v, sin2beta, car_length], dt, Milli]
                    IN  [dx |-> MulDiv[car_length,
                                       Sin[theta + dtheta] - Sin[theta],
                                       sin2beta],
                         dy |-> MulDiv[car_length,
                                       Cos[theta] - Cos[theta + dtheta],
                                       sin2beta],
                         dtheta |-> dtheta,
                         inf |-> 0]

\* the tests of the two while loops, lines 180 and 183
WrapsAbove(theta, s) ==
  IF s.inf = 0 THEN theta + s.dtheta > TwoPi ELSE s.inf > 0
WrapsBelow(theta, s) ==
  IF s.inf = 0 THEN theta + s.dtheta < TwoPi ELSE s.inf < 0

\* dtheta -= 2*np.pi and dtheta += 2*np.pi, lines 181 and 184: an infinity
\* stays the infinity it is
WrapBy(s, turn) ==
  IF s.inf = 0 THEN [s EXCEPT !.dtheta = @ + turn] ELSE s

----------------------------------------------------------------------------
Init ==
  /\ params \in Params
  /\ pc = "main"
  /\ deltas = <<>>
  /\ rollouts = <<>>
  /\ i = 0
  /\ trajectory = <<>>
  /\ current_pose = Origin
  /\ step = [dx |-> 0, dy |-> 0, dtheta |-> 0, inf |-> 0]
  /\ iter = 0
  /\ subscribed = FALSE
  /\ msg = [angle_min |-> 0, angle_increment |-> 1, ranges |-> <<>>]
  /\ start = 0
  /\ now = 0
  /\ delta_costs = <<>>
  /\ sweeps = 0
  /\ chosen_delta = 0
  /\ cmd_pub = <<>>
  /\ error = "none"

\* main line 265, generate_mpc_rollouts lines 223-228
GenerateMpcRollouts ==
  /\ pc = "main"
  /\ IF params.delta_incr = 0
     THEN /\ pc' = "crashed"
          /\ error' = "ZeroDivisionError"
          /\ UNCHANGED <<deltas, i>>
     ELSE /\ deltas' = Arange(params.min_delta, params.max_delta,
                              params.delta_incr)
          /\ i' = 0
          /\ pc' = "mpc_loop"
          /\ UNCHANGED error
  /\ UNCHANGED <<params, rollouts, trajectory, current_pose, step, iter,
                 subscribed>>
  /\ UNCHANGED cycle_vars

\* generate_mpc_rollouts lines 230-237, generate_rollout lines 197-198
MpcLoop ==
  /\ pc = "mpc_loop"
  /\ IF i < Len(deltas)
     THEN /\ trajectory' = <<>>
          /\ current_pose' = Origin
          /\ pc' = "rollout_loop"
     ELSE /\ pc' = "construct"
          /\ UNCHANGED <<trajectory, current_pose>>
  /\ UNCHANGED <<params, deltas, rollouts, i, step, iter, subscribed, error>>
  /\ UNCHANGED cycle_vars

\* generate_rollout lines 202-206, kinematic_model_step lines 166-178
RolloutLoop ==
  /\ pc = "rollout_loop"
  /\ IF Len(trajectory) < params.T
     THEN /\ step' = KinematicDeltas(current_pose,
                       <<params.speed, deltas[i + 1], params.dt>>,
                       params.car_length)
          /\ pc' = "wrap_sub"
          /\ UNCHANGED <<rollouts, i>>
     ELSE /\ rollouts' = Append(rollouts, trajectory)
          /\ i' = i + 1
          /\ pc' = "mpc_loop"
          /\ UNCHANGED step
  /\ UNCHANGED <<params, deltas, trajectory, current_pose, iter, subscribed,
                 error>>
  /\ UNCHANGED cycle_vars

\* kinematic_model_step lines 180-181
WrapSub ==
  /\ pc = "wrap_sub"
  /\ IF WrapsAbove(current_pose[3], step)
     THEN /\ step' = WrapBy(step, -TwoPi)
          /\ iter' = 1 - iter
          /\ UNCHANGED pc
     ELSE /\ pc' = "wrap_add"
          /\ UNCHANGED <<step, iter>>
  /\ UNCHANGED <<params, deltas, rollouts, i, trajectory, current_pose,
                 subscribed, error>>
  /\ UNCHANGED cycle_vars

\* kinematic_model_step lines 183-186, generate_rollout lines 203-204
WrapAdd ==
  /\ pc = "wrap_add"
  /\ IF WrapsBelow(current_pose[3], step)
     THEN /\ step' = WrapBy(step, TwoPi)
          /\ iter' = 1 - iter
          /\ UNCHANGED <<pc, trajectory, current_pose>>
     ELSE /\ LET pose == <<current_pose[1] + step.dx,
                           current_pose[2] + step.dy,
                           current_pose[3] + step.dtheta>>
             IN  /\ trajectory' = Append(trajectory, pose)
                 /\ current_pose' = pose
          /\ pc' = "rollout_loop"
          /\ UNCHANGED <<step, iter>>
  /\ UNCHANGED <<params, deltas, rollouts, i, subscribed, error>>
  /\ UNCHANGED cycle_vars

\* main line 268, LaserWanderer.__init__ lines 41-54, main line 271
Construct ==
  /\ pc = "construct"
  /\ subscribed' = TRUE
  /\ pc' = "spin"
  /\ UNCHANGED <<params, deltas, rollouts, i, trajectory, current_pose, step,
                 iter, error>>
  /\ UNCHANGED cycle_vars

Startup ==
  \/ GenerateMpcRollouts
  \/ MpcLoop
  \/ RolloutLoop
  \/ WrapSub
  \/ WrapAdd
  \/ Construct

SpecStartup == Init /\ [][Startup]_vars /\ WF_vars(Startup)

----------------------------------------------------------------------------
(* The laser scans (sensor_msgs/LaserScan): five rays half a radian apart;  *)
(* a sample is a valid reading in centimetres or the NaN of "no return".    *)
NaN == [valid |-> FALSE, r |-> 0]
Reading(r) == [valid |-> TRUE, r |-> r]
Samples == {NaN, Reading(197), Reading(3000)}
ScanRanges == {<<r, r, c, l, l>> : r \in Samples, c \in Samples, l \in Samples}
Scans ==
  [angle_min : {-2000, -1000, 0}, angle_increment : {500}, ranges : ScanRanges]

\* int(round((angle - angle_min) / angle_increment)), line 107
SampleIndex(angle, laser_msg) ==
  Round[angle - laser_msg.angle_min, laser_msg.angle_increment]

\* Python's sequence indexing: k in -n..n-1 is an item, anything else raises
PyIndexOk(k, n) == -n <= k /\ k < n
PyItem(seq, k) == seq[(k % Len(seq)) + 1]

\* pose_distance > (laser_distance - np.abs(self.laser_offset)), lines 113-117;
\* a comparison with NaN is false
Exceeds(pose_distance, laser_distance, laser_offset) ==
  /\ laser_distance.valid
  /\ pose_distance > Centi * (laser_distance.r - Abs(laser_offset))

\* the rays compute_cost reads, in the order of lines 107-109
RayOffsets == <<0, 1, -1>>

\* how many of the three comparisons of lines 113-118 add MAX_PENALTY
Penalties(rollout_pose, laser_msg, laser_offset) ==
  LET idx == SampleIndex(Atan2[rollout_pose[2], rollout_pose[1]], laser_msg)
      pose_distance == rollout_pose[1] * rollout_pose[1]
                         + rollout_pose[2] * rollout_pose[2]
  IN  Cardinality({k \in 1..3 :
        Exceeds(pose_distance, PyItem(laser_msg.ranges, idx + RayOffsets[k]),
                laser_offset)})

\* compute_cost without lines 113-118: the steering effort alone
ComputeCostEffortOnly(delta, rollout_pose, laser_msg, laser_offset) ==
  [raised |-> FALSE, cost |-> Abs(delta)]

\* LaserWanderer.compute_cost, lines 103-122.  raised: an IndexError left the
\* function; cost: the returned value times CostDen * Milli
ComputeCost(delta, rollout_pose, laser_msg, laser_offset) ==
  LET idx == SampleIndex(Atan2[rollout_pose[2], rollout_pose[1]], laser_msg)
      n == Len(laser_msg.ranges)
  IN  IF \E k \in 1..3 : ~PyIndexOk(idx + RayOffsets[k], n)
      THEN [raised |-> TRUE, cost |-> 0]
      ELSE [raised |-> FALSE,
            cost |-> Abs(delta)
                       + Penalties(rollout_pose, laser_msg, laser_offset)
                           * MAX_PENALTY * Milli]

\* what one pass of lines 142-144 adds to delta_costs[n]
RECURSIVE TrajectoryCost(_, _)
TrajectoryCost(n, t) ==
  IF t = 0 THEN 0
  ELSE TrajectoryCost(n, t - 1)
         + ComputeCost(deltas[n], rollouts[n][t], msg, params.laser_offset).cost

\* some call of compute_cost in a pass raises
SweepRaises ==
  \E n \in 1..Len(deltas) : \E t \in 1..params.T :
    ComputeCost(deltas[n], rollouts[n][t], msg, params.laser_offset).raised

\* a pass that evaluates only the depth of its own number, as the comment of
\* lines 137-139 describes (cost "at time t = traj_depth")
SweepAddAtDepth(costs, k) ==
  [n \in 1..Len(deltas) |->
     costs[n] + ComputeCost(deltas[n],
                            rollouts[n][IF k < params.T THEN k + 1 ELSE params.T],
                            msg, params.laser_offset).cost]

\* lines 142-144: one pass over every trajectory and every depth; k is the
\* number of passes already made
SweepAdd(costs, k) ==
  [n \in 1..Len(deltas) |-> costs[n] + TrajectoryCost(n, params.T)]

\* a loop test that forgets compute_time
DeadlineIgnoresBudget(clock, started, compute_time) == ~(clock < started)

\* the test of the while loop, line 141, negated
DeadlinePassed(clock, started, compute_time) ==
  ~(clock < started + compute_time)

\* the first position (1-based) of the minimum of a non-empty sequence
FirstMinimum(costs) ==
  CHOOSE a \in 1..Len(costs) :
    /\ \A b \in 1..Len(costs) : costs[a] <= costs[b]
    /\ \A b \in 1..(a - 1) : costs[b] > costs[a]

\* an argmin that keeps the last of equal minima
NpArgminLast(costs) ==
  IF Len(costs) = 0 THEN [raised |-> TRUE, index |-> 0]
  ELSE [raised |-> FALSE,
        index |-> (CHOOSE a \in 1..Len(costs) :
                     /\ \A b \in 1..Len(costs) : costs[a] <= costs[b]
                     /\ \A b \in (a + 1)..Len(costs) : costs[b] > costs[a]) - 1]

\* an argmin that answers 0 for an empty array
NpArgminOfEmpty(costs) ==
  IF Len(costs) = 0 THEN [raised |-> FALSE, index |-> 0]
  ELSE [raised |-> FALSE, index |-> FirstMinimum(costs) - 1]

\* np.argmin, line 147: the first index (0-based) of the minimum; raises
\* ValueError on an empty array
NpArgmin(costs) ==
  IF Len(costs) = 0 THEN [raised |-> TRUE, index |-> 0]
  ELSE [raised |-> FALSE, index |-> FirstMinimum(costs) - 1]

\* the AckermannDriveStamped of lines 150-154
Command(steering_angle, speed) ==
  [steering_angle |-> steering_angle, speed |-> speed]

\* wander_cb lines 130-135, on the arrival of a scan: start is the reading
\* of line 130, now the reading the first test of line 141 will see
WanderBegin ==
  /\ pc \in {"spin", "done", "raised"}
  /\ subscribed
  /\ \E scan \in Scans : msg' = scan
  /\ \E s \in 0..1 : \E r \in s..MaxClock : start' = s /\ now' = r
  /\ delta_costs' = [n \in 1..Len(deltas) |-> 0]
  /\ sweeps' = 0
  /\ chosen_delta' = 0
  /\ cmd_pub' = <<>>
  /\ error' = "none"
  /\ pc' = "accumulating"
  /\ UNCHANGED params
  /\ UNCHANGED startup_vars

\* wander_cb lines 141-144: the loop test passes and one pass runs
Sweep ==
  /\ pc = "accumulating"
  /\ ~DeadlinePassed(now, start, params.compute_time)
  /\ sweeps < MaxSweeps
  /\ IF SweepRaises
     THEN /\ pc' = "raised"
          /\ error' = "IndexError"
          /\ UNCHANGED <<delta_costs, sweeps, now>>
     ELSE /\ delta_costs' = SweepAdd(delta_costs, sweeps)
          /\ sweeps' = sweeps + 1
          /\ \E r \in now..MaxClock : now' = r
          /\ UNCHANGED <<pc, error>>
  /\ UNCHANGED <<params, msg, start, chosen_delta, cmd_pub>>
  /\ UNCHANGED startup_vars

\* wander_cb lines 141 and 147: the loop test fails, np.argmin
Select ==
  /\ pc = "accumulating"
  /\ DeadlinePassed(now, start, params.compute_time)
  /\ IF NpArgmin(delta_costs).raised
     THEN /\ pc' = "raised"
          /\ error' = "ValueError"
          /\ UNCHANGED chosen_delta
     ELSE /\ chosen_delta' = NpArgmin(delta_costs).index
          /\ pc' = "selecting"
          /\ UNCHANGED error
  /\ UNCHANGED <<params, msg, start, now, delta_costs, sweeps, cmd_pub>>
  /\ UNCHANGED startup_vars

\* wander_cb lines 150-157
Publish ==
  /\ pc = "selecting"
  /\ IF chosen_delta + 1 \in DOMAIN deltas
     THEN /\ cmd_pub' = Append(cmd_pub,
                               Command(deltas[chosen_delta + 1], params.speed))
          /\ pc' = "done"
          /\ UNCHANGED error
     ELSE /\ pc' = "raised"
          /\ error' = "IndexError"
          /\ UNCHANGED cmd_pub
  /\ UNCHANGED <<params, msg, start, now, delta_costs, sweeps, chosen_delta>>
  /\ UNCHANGED startup_vars

Next ==
  \/ GenerateMpcRollouts
  \/ MpcLoop
  \/ RolloutLoop
  \/ WrapSub
  \/ WrapAdd
  \/ Construct
  \/ WanderBegin
  \/ Sweep
  \/ Select
  \/ Publish

Spec == Init /\ [][Next]_vars

----------------------------------------------------------------------------
(* The claims. *)

InCycle == pc \in {"accumulating", "selecting", "done"}
Selected == pc \in {"selecting", "done"}

\* what one full pass adds to each accumulator
SweepTotals == [n \in 1..Len(deltas) |-> TrajectoryCost(n, params.T)]

\* a is the lowest position of the minimum of costs
LowestMinimum(costs, a) ==
  /\ a \in DOMAIN costs
  /\ \A b \in DOMAIN costs : costs[a] <= costs[b]
  /\ \A b \in DOMAIN costs : b < a => costs[b] > costs[a]

\* C1 as stated: whatever the number of passes the loop made (none included),
\* the selected index is the one the ranking of a full pass gives.
C1_SameWinnerForEverySweepCount ==
  (Selected /\ ~SweepRaises) => LowestMinimum(SweepTotals, chosen_delta + 1)

\* C1 amended: after one or more full passes the selected index is the one the
\* ranking of a single pass gives, whatever the number of passes.
C1_SameWinnerFromOneSweepOn ==
  (Selected /\ sweeps >= 1) => LowestMinimum(SweepTotals, chosen_delta + 1)

C1_Witness ==
  /\ pc = "done"
  /\ sweeps >= 2
  /\ chosen_delta >= 1
  /\ \E n \in DOMAIN delta_costs : delta_costs[n] > 0

\* C2: the selected index has the minimum accumulated cost, every lower index
\* has a strictly greater one, and the published steering angle is the
\* candidate at that index.
C2_ArgminLowestIndex ==
  /\ Selected => LowestMinimum(delta_costs, chosen_delta + 1)
  /\ pc = "done" =>
       /\ Len(cmd_pub) = 1
       /\ cmd_pub[1].steering_angle = deltas[chosen_delta + 1]

C2_Witness ==
  /\ pc = "done"
  /\ sweeps >= 1
  /\ \E b \in DOMAIN delta_costs :
       /\ b > chosen_delta + 1
       /\ delta_costs[b] = delta_costs[chosen_delta + 1]
       /\ delta_costs[b] > 0

\* the sample positions the claim calls in range: 0..count-1
InScan(k, n) == 0 <= k /\ k < n

\* the penalties of the rays of a pose that are in range
InScanPenalties(rollout_pose, laser_msg, laser_offset) ==
  LET idx == SampleIndex(Atan2[rollout_pose[2], rollout_pose[1]], laser_msg)
      pose_distance == rollout_pose[1] * rollout_pose[1]
                         + rollout_pose[2] * rollout_pose[2]
  IN  Cardinality({k \in 1..3 :
        /\ InScan(idx + RayOffsets[k], Len(laser_msg.ranges))
        /\ Exceeds(pose_distance, laser_msg.ranges[idx + RayOffsets[k] + 1],
                   laser_offset)})

SomeRayOutside(rollout_pose, laser_msg) ==
  LET idx == SampleIndex(Atan2[rollout_pose[2], rollout_pose[1]], laser_msg)
  IN  \E k \in 1..3 : ~InScan(idx + RayOffsets[k], Len(laser_msg.ranges))

\* C3: for a pose one of whose three rays lies outside 0..count-1, compute_cost
\* raises nothing and returns the cost of the rays in range alone.
C3_OutOfRangeRaySkipped ==
  InCycle =>
    \A n \in 1..Len(deltas) : \A t \in 1..params.T :
      SomeRayOutside(rollouts[n][t], msg) =>
        LET c == ComputeCost(deltas[n], rollouts[n][t], msg,
                             params.laser_offset)
        IN  /\ ~c.raised
            /\ c.cost = Abs(deltas[n])
                          + InScanPenalties(rollouts[n][t], msg,
                                            params.laser_offset)
                              * MAX_PENALTY * Milli

\* C4: for a pose whose three rays are in range, compute_cost returns
\* |delta| + p * MAX_PENALTY / 3, p the number of valid samples the pose
\* exceeds (both sides times CostDen * Milli).
C4_CostIsEffortPlusMeanPenalty ==
  InCycle =>
    \A n \in 1..Len(deltas) : \A t \in 1..params.T :
      ~SomeRayOutside(rollouts[n][t], msg) =>
        LET c == ComputeCost(deltas[n], rollouts[n][t], msg,
                             params.laser_offset)
        IN  /\ ~c.raised
            /\ c.cost = CostDen * Abs(deltas[n])
                          + InScanPenalties(rollouts[n][t], msg,
                                            params.laser_offset)
                              * MAX_PENALTY * Milli

\* C5: with no candidates a scan's cycle ends in an error, publishes nothing,
\* and leaves the controller able to take the next scan.
C5_NoCandidatesIsAnError ==
  (subscribed /\ Len(deltas) = 0) =>
    /\ pc \notin {"selecting", "done"}
    /\ cmd_pub = <<>>
    /\ pc = "raised" => (error = "ValueError" /\ ENABLED WanderBegin)

C5_Witness ==
  /\ pc = "raised"
  /\ Len(deltas) = 0
  /\ error = "ValueError"
  /\ Len(msg.ranges) > 0

InvalidConfiguration ==
  \/ params.delta_incr <= 0
  \/ params.max_delta <= params.min_delta
  \/ params.car_length <= 0

\* C6: under an invalid configuration generate_mpc_rollouts returns no table
\* and the controller is never constructed or subscribed.
C6_InvalidConfigurationRejected ==
  InvalidConfiguration => (pc \notin {"construct", "spin"} /\ ~subscribed)

Canonical(heading) ==
  \/ 0 <= heading /\ heading < TwoPi
  \/ -Pi < heading /\ heading <= Pi

\* C7: every heading kinematic_model_step returns, so every heading of the
\* rollout table, lies in [0, 2 pi) or in (-pi, pi].
C7_HeadingsCanonical ==
  /\ \A n \in DOMAIN rollouts : \A t \in DOMAIN rollouts[n] :
       Canonical(rollouts[n][t][3])
  /\ \A t \in DOMAIN trajectory : Canonical(trajectory[t][3])

RolloutPenalized(n) ==
  \E t \in 1..params.T :
    Penalties(rollouts[n][t], msg, params.laser_offset) > 0

RECURSIVE RolloutPenalties(_, _)
RolloutPenalties(n, t) ==
  IF t = 0 THEN 0
  ELSE RolloutPenalties(n, t - 1)
         + Penalties(rollouts[n][t], msg, params.laser_offset)

C8_Scenario ==
  /\ pc = "done"
  /\ deltas = <<0, 200>>
  /\ RolloutPenalized(1)
  /\ ~RolloutPenalized(2)

\* C8 as stated: with candidates 0 and 0.2, the first penalized and the
\* second not, the cycle publishes 0.2 and the configured speed, whatever the
\* budget and the clock.
C8_OpenSpaceWins ==
  C8_Scenario => cmd_pub = <<Command(200, params.speed)>>

\* C8 amended: the same, for a cycle that completed one pass or more and a
\* horizon T with T * 0.2 below the penalties of the first rollout.
C8_OpenSpaceWinsAfterASweep ==
  (/\ C8_Scenario
   /\ sweeps >= 1
   /\ params.T * 200
        < RolloutPenalties(1, params.T) * MAX_PENALTY * Milli)
    => cmd_pub = <<Command(200, params.speed)>>

C8_Witness ==
  /\ C8_Scenario
  /\ sweeps >= 1
  /\ params.T = MaxT
  /\ cmd_pub = <<Command(200, params.speed)>>

C9_StateInvariant ==
  /\ (pc = "accumulating" /\ sweeps = 0) =>
       \A n \in DOMAIN delta_costs : delta_costs[n] = 0
  /\ Selected => now - start >= params.compute_time
  /\ pc \in {"accumulating", "selecting"} => cmd_pub = <<>>
  /\ pc = "done" =>
       cmd_pub = <<Command(deltas[chosen_delta + 1], params.speed)>>

C9_PhaseOrder ==
  /\ pc' = "accumulating" =>
       \/ pc = "accumulating"
       \/ pc \in {"spin", "done", "raised"}
            /\ \A n \in DOMAIN delta_costs' : delta_costs'[n] = 0
  /\ pc' = "selecting" => pc = "accumulating"
  /\ pc' = "done" => pc = "selecting"
  /\ cmd_pub' # cmd_pub =>
       \/ pc' = "accumulating" /\ cmd_pub' = <<>>
       \/ pc = "selecting" /\ pc' = "done"

\* C9: a cycle goes Accumulating, Selecting, Done in that order from zeroed
\* accumulators; it selects only once the clock read start + compute_time or
\* more; it publishes nothing before Done and there exactly one command, the
\* winner's angle with the configured speed.
C9_CycleOrder == []C9_StateInvariant /\ [][C9_PhaseOrder]_vars

C9_Witness ==
  /\ pc = "done"
  /\ Len(deltas) >= 2
  /\ sweeps >= 1
  /\ start >= 1
  /\ params.compute_time >= 1
  /\ chosen_delta >= 1

\* C10: the two wrap loops of kinematic_model_step end, so main gets through
\* rollout generation (to rospy.spin, or to an exception).
C10_RolloutGenerationTerminates == <>(pc \in {"spin", "crashed"})
====
